---- MODULE Spec2Model ----
(***************************************************************************)
(* Model of mongoose-plugin-auth (src/auth.js, lines 1-385): the           *)
(* pre-validate hook encryptPassphrase, the statics register,              *)
(* setPassphrase and authenticate, and the methods setPassphrase and       *)
(* authenticate, running against a collection of user documents.           *)
(*                                                                         *)
(* Every JavaScript value that the plugin compares (strings, undefined,    *)
(* null, ObjectIds, salts, hashes) is a sequence of integers, so that the  *)
(* comparisons the code makes (===, !==, the equality test of              *)
(* Document#set, the unique index) are plain equality here:                *)
(*   <<-1>>            undefined                                           *)
(*   <<-2>>            null                                                *)
(*   <<-3, n>>         the hex string of the n-th crypto.randomBytes buffer*)
(*   <<-4, k>> \o ...  a hex string produced by pbkdf2                     *)
(*   <<-5>> \o s       the digest HMAC takes of a key longer than a block  *)
(*   <<-6, n>>         the n-th ObjectId                                   *)
(*   <<-7>>            a key that an `extra` object does not have          *)
(*   other sequences   strings, one character code per element (0 is the   *)
(*                     NUL character, 32 the space)                        *)
(***************************************************************************)
EXTENDS Integers, Sequences, FiniteSets, TLC

\* Bounds of the model.
MaxDocs == 2
MaxHeld == 1
MaxIds == 2
MaxCalls == 3

Undefined == <<-1>>
Null == <<-2>>
Absent == <<-7>>

IsMissing(v) == v = Undefined \/ v = Null

IsHash(v) == Len(v) >= 2 /\ v[1] = -4

ObjectId(n) == <<-6, n>>

IsObjectId(v) == Len(v) = 2 /\ v[1] = -6

RECURSIVE StripTrailing(_, _)
StripTrailing(s, c) ==
  IF s = <<>> \/ s[Len(s)] # c THEN s
  ELSE StripTrailing(SubSeq(s, 1, Len(s) - 1), c)

RECURSIVE StripLeading(_, _)
StripLeading(s, c) ==
  IF s = <<>> \/ s[1] # c THEN s
  ELSE StripLeading(SubSeq(s, 2, Len(s)), c)

\* The `trim: true` setter of the username path.
Trim(v) == IF IsMissing(v) THEN v ELSE StripLeading(StripTrailing(v, 32), 32)

\* The key HMAC works with: a key longer than the block (here: a pbkdf2 hex
\* string, 2 * keylen characters) is replaced by its digest, a shorter one is
\* padded with NUL bytes up to the block size, so trailing NULs do not count.
HmacKey(passphrase) ==
  IF IsHash(passphrase) THEN <<-5>> \o passphrase
  ELSE StripTrailing(passphrase, 0)

VARIABLES given, options, db, docs, nextId, entropy, calls, last, issued, registered,
          changed

vars ==
  <<given, options, db, docs, nextId, entropy, calls, last, issued, registered, changed>>

Paths == {"username", "salt", "passphrase", "name"}

\* The options of a schema path, as far as the plugin sets them.
PathOptions(type, required, unique, trim) ==
  [type |-> type, required |-> required, unique |-> unique, trim |-> trim]

\* The schema the plugin is applied to: `name`, and the `_id` every schema has.
userSchema ==
  [paths |-> [p \in {"_id", "name"} |->
                IF p = "_id" THEN PathOptions("ObjectId", FALSE, TRUE, FALSE)
                ELSE PathOptions("String", FALSE, FALSE, FALSE)],
   statics |-> {}, methods |-> {}]

\* options.username.options, options.salt.options, options.passphrase.options
UsernameOptions == PathOptions("String", TRUE, TRUE, TRUE)

SaltOptions == PathOptions("String", TRUE, FALSE, FALSE)

PassphraseOptions == PathOptions("String", TRUE, FALSE, FALSE)

\* The first argument of _.merge: the defaults of the plugin.
Defaults ==
  [username |-> [path |-> "username", options |-> UsernameOptions,
                 missingError |-> "Username was not specified",
                 incorrectError |-> "Unknown username"],
   passphrase |-> [path |-> "passphrase", options |-> PassphraseOptions,
                   missingError |-> "Passphrase was not specified",
                   incorrectError |-> "Incorrect passphrase"],
   salt |-> [path |-> "salt", options |-> SaltOptions, len |-> 32],
   hash |-> [iterations |-> 25000, keylen |-> 512, encoding |-> "hex"]]

\* A merge in which the fields of `object` win.
merge_defaults(object, source) ==
  [k \in DOMAIN object \cup DOMAIN source |->
     IF k \notin DOMAIN source THEN object[k]
     ELSE IF k \notin DOMAIN object THEN source[k]
     ELSE [f \in DOMAIN object[k] \cup DOMAIN source[k] |->
             IF f \in DOMAIN object[k] THEN object[k][f] ELSE source[k][f]]]

\* _.merge(object, source): group by group, the fields of `source` over the
\* fields of `object`.
merge(object, source) ==
  [k \in DOMAIN object \cup DOMAIN source |->
     IF k \notin DOMAIN source THEN object[k]
     ELSE IF k \notin DOMAIN object THEN source[k]
     ELSE [f \in DOMAIN object[k] \cup DOMAIN source[k] |->
             IF f \in DOMAIN source[k] THEN source[k][f] ELSE object[k][f]]]

usernamePath == options.username.path

\* How a string of `encoding` differs from the hex string.
Encoded(encoding) == IF encoding = "hex" THEN 0 ELSE 1

\* A derivation that leaves the passphrase out.
pbkdf2_unkeyed(passphrase, salt) == <<-4, 0>> \o salt

\* What the derived string owes to options.hash: nothing to write down for
\* the default derivation, the three parameters for any other.
Derivation(hash) ==
  IF hash.iterations = 25000 /\ hash.keylen = 512 /\ hash.encoding = "hex" THEN <<>>
  ELSE <<-8, hash.iterations, hash.keylen, Encoded(hash.encoding)>>

\* crypto.pbkdf2 over (passphrase, salt) with options.hash.iterations and
\* options.hash.keylen, as a string of options.hash.encoding: injective in
\* the HMAC key, the salt and the three parameters.
pbkdf2(passphrase, salt) ==
  <<-4, Len(HmacKey(passphrase))>> \o HmacKey(passphrase) \o salt
    \o Derivation(options.hash)

\* buf.toString(options.hash.encoding) of the n-th buffer that
\* crypto.randomBytes(options.salt.len) delivers.
randomBytes(n) ==
  <<-3, n>> \o (IF options.salt.len = 32 /\ options.hash.encoding = "hex" THEN <<>>
               ELSE <<options.salt.len, Encoded(options.hash.encoding)>>)

\* schema.path(path, options) whether the schema has the path or not.
AddPath_overwrite(schema, path, schemaType) ==
  [schema EXCEPT !.paths = [p \in DOMAIN schema.paths \cup {path} |->
                              IF p = path THEN schemaType ELSE schema.paths[p]]]

\* if (!schema.path(path)) { schema.path(path, schemaType); }
AddPath(schema, path, schemaType) ==
  IF path \in DOMAIN schema.paths THEN schema
  ELSE [schema EXCEPT !.paths = [p \in DOMAIN schema.paths \cup {path} |->
                                   IF p = path THEN schemaType ELSE schema.paths[p]]]

\* schema.plugin(auth, {username: {path: path}}): the three paths, then the
\* statics and methods.
authPlugin(schema, path) ==
  [AddPath(AddPath(AddPath(schema, path, UsernameOptions), "salt", SaltOptions),
           "passphrase", PassphraseOptions)
   EXCEPT !.statics = @ \cup {"register", "setPassphrase", "authenticate"},
          !.methods = @ \cup {"setPassphrase", "authenticate"}]

\* The schema of the model.
Schema == authPlugin(userSchema, usernamePath)

\* The paths of a document with `required: true`: the ones the plugin added;
\* an existing path (`_id`) is left as the schema defines it.
Required ==
  {p \in Paths : p \in DOMAIN Schema.paths /\ Schema.paths[p].required}

----------------------------------------------------------------------------
\* Documents.

\* new User(): a document with a generated ObjectId and no path set.
NewUser(id) ==
  [id |-> id, isNew |-> TRUE, f |-> [p \in Paths |-> Undefined],
   mod |-> {}, sel |-> Paths]

NoUser ==
  [id |-> Undefined, isNew |-> FALSE, f |-> [p \in Paths |-> Undefined],
   mod |-> {}, sel |-> {}]

\* The schema setters applied by Document#set: the username path trims.
Cast(path, val) == IF path = "username" THEN Trim(val) ELSE val

\* Document#set marks a path modified when the document is new, when an
\* unselected path is set to undefined, or when the value differs from the
\* present one.
ShouldModify(user, path, val) ==
  \/ user.isNew
  \/ (val = Undefined /\ path \notin user.sel)
  \/ val # user.f[path]

\* user.set(path, val)
DocSet(user, path, val) ==
  [user EXCEPT !.f[path] = Cast(path, val),
               !.mod = IF ShouldModify(user, path, Cast(path, val))
                       THEN @ \cup {path} ELSE @]

\* user.set(options.username.path, username): the username path is either the
\* plugin's own path or `_id`.
SetUsername(user, username) ==
  IF usernamePath = "_id" THEN [user EXCEPT !.id = username]
  ELSE DocSet(user, "username", username)

NoExtra == [name |-> Absent, salt |-> Absent, passphrase |-> Absent]

SetKey(user, extra, path) ==
  IF extra[path] = Absent THEN user ELSE DocSet(user, path, extra[path])

\* user.set(extra): every key of the object is set.
SetExtra(user, extra) ==
  SetKey(SetKey(SetKey(user, extra, "name"), extra, "salt"), extra, "passphrase")

\* user.isModified(options.passphrase.path)
isModified(user, path) == path \in user.mod

\* The `required` validators that run on a save: every required path of a new
\* document, the selected or modified required paths of a stored one.  A
\* required string fails when it is undefined, null or empty.
Invalid(user) ==
  {p \in Required :
     /\ (user.isNew \/ p \in user.sel \/ p \in user.mod)
     /\ (IsMissing(user.f[p]) \/ user.f[p] = <<>>)}

\* The document findOne delivers under select('passphrase salt').
Loaded(r) ==
  [id |-> r.id, isNew |-> FALSE,
   f |-> [p \in Paths |-> IF p \in {"passphrase", "salt"} THEN r.f[p] ELSE Undefined],
   mod |-> {}, sel |-> {"passphrase", "salt"}]

\* query.where(options.username.path, username): the value is cast to the type
\* of the path (no setter runs on a query); a value that cannot be cast to an
\* ObjectId is a CastError.
CastFails(username) == usernamePath = "_id" /\ ~IsObjectId(username)

Found(username) ==
  IF usernamePath = "_id" THEN {r \in db : r.id = username}
  ELSE {r \in db : r.f.username = username}

----------------------------------------------------------------------------
\* Calls in flight.  A slot holds one in-memory document and the call that is
\* running on it.

\* An argument as the caller gives it: a value (a string, null, undefined), a
\* function or a plain object.
Val(v) == [kind |-> "value", val |-> v, obj |-> NoExtra]

Fn == [kind |-> "function", val |-> Undefined, obj |-> NoExtra]

Obj(x) == [kind |-> "object", val |-> Undefined, obj |-> x]

isFunction(a) == a.kind = "function"

isPlainObject(a) == a.kind = "object"

\* The i-th parameter of a function called with `args`.
Param(args, i) == IF i <= Len(args) THEN args[i] ELSE Val(Undefined)

\* param !== undefined
Given(a) == ~(a.kind = "value" /\ a.val = Undefined)

\* A register that takes two arguments for (username, passphrase) whatever
\* the second is.
RegisterArity_pair(args) ==
  [username |-> Param(args, 1), passphrase |-> Param(args, 2),
   extra |-> Param(args, 3), cb |-> Param(args, 4)]

\* The arity check of register: (username, passphrase, extra, cb) as resolved
\* from the arguments.
RegisterArity(args) ==
  LET username == Param(args, 1)
      passphrase == Param(args, 2)
      extra == Param(args, 3)
      cb == Param(args, 4)
      undefined == Val(Undefined)
  IN  IF Len(args) = 1
      THEN [username |-> undefined, passphrase |-> username, extra |-> extra, cb |-> cb]
      ELSE IF Len(args) = 2 /\ isFunction(passphrase)
      THEN [username |-> undefined, passphrase |-> username, extra |-> extra,
            cb |-> passphrase]
      ELSE IF Len(args) = 2 /\ isPlainObject(passphrase)
      THEN [username |-> undefined, passphrase |-> username, extra |-> passphrase,
            cb |-> cb]
      ELSE IF Len(args) = 3 /\ isFunction(extra) /\ isPlainObject(passphrase)
      THEN [username |-> undefined, passphrase |-> username, extra |-> passphrase,
            cb |-> extra]
      ELSE IF Len(args) = 3 /\ isFunction(extra)
      THEN [username |-> username, passphrase |-> passphrase, extra |-> undefined,
            cb |-> extra]
      ELSE [username |-> username, passphrase |-> passphrase, extra |-> extra, cb |-> cb]

\* A static setPassphrase that takes its fourth argument for `extra` whatever
\* it is.
SetPassphraseArity_extra(args) == [extra |-> Param(args, 4), cb |-> Param(args, 5)]

\* The arity check of the static setPassphrase: (extra, cb).
SetPassphraseArity(args) ==
  IF Len(args) = 4 /\ isFunction(Param(args, 4))
  THEN [extra |-> Val(Undefined), cb |-> Param(args, 4)]
  ELSE [extra |-> Param(args, 4), cb |-> Param(args, 5)]

\* The arity check of the method setPassphrase: (extra, cb).
UserSetPassphraseArity(args) ==
  IF Len(args) = 2 /\ isFunction(Param(args, 2))
  THEN [extra |-> Val(Undefined), cb |-> Param(args, 2)]
  ELSE [extra |-> Param(args, 2), cb |-> Param(args, 3)]

\* A callback that throws when it is called.
Thrower == [kind |-> "function", val |-> Null, obj |-> NoExtra]

\* The arguments of a call: as given (args), and as resolved (this: the slot
\* of the document a method is called on; cb: a callback was given; throws:
\* the callback throws).
NoArg ==
  [this |-> Undefined, username |-> Undefined, passphrase |-> Undefined,
   newPassphrase |-> Undefined, extra |-> NoExtra, args |-> <<>>, cb |-> TRUE,
   throws |-> FALSE]

\* The calls a run of the hook encryptPassphrase has made of next and done,
\* and whether done was given an error.
NoHook == [next |-> 0, done |-> 0, err |-> FALSE]

\* next()
next(hook) == [hook EXCEPT !.next = @ + 1]

\* A done that drops its argument.
done_plain(hook, err) == [hook EXCEPT !.done = @ + 1]

\* done(), done(err)
done(hook, err) == [hook EXCEPT !.done = @ + 1, !.err = err]

Free ==
  [pc |-> "free", op |-> "none", user |-> NoUser, passphrase |-> Undefined,
   salt |-> Undefined, arg |-> NoArg, hook |-> NoHook]

Idle(user) == [Free EXCEPT !.pc = "idle", !.user = user]

Slots == 1..MaxDocs

FreeSlot(d) ==
  /\ docs[d].pc = "free"
  /\ \A e \in Slots : e < d => docs[e].pc # "free"

Statics == {"register", "setPassphrase", "authenticate"}

\* No call has completed since the latest call was made.
Pending ==
  [op |-> "none", arg |-> NoArg, via |-> "none", err |-> "pending", errors |-> {},
   user |-> NoUser, at |-> "free", times |-> 0, hook |-> NoHook]

\* The handlers that catch what the callback of user.authenticate throws and
\* call it once more: the method's own catch when the callback was called in
\* checkHash (on success), none when it was called in that catch or before
\* the promise was made.
MethodCatches(s, err) == IF err = "none" THEN 1 ELSE 0

\* The same for the static authenticate: the callback called before the
\* promise was made (missing username) or in the static's catch (unknown
\* username) is not called again; what user.authenticate lets out is caught by
\* the static's catch.
StaticCatches(s, err) ==
  IF s.pc = "free" THEN 0 ELSE MethodCatches(s, err) + 1

\* How often the callback is called, the first call (err, user) included: a
\* callback that throws is called again by every handler that catches.
Invoked(s, err) ==
  IF ~s.arg.throws THEN 1
  ELSE IF s.op = "user.authenticate" THEN 1 + MethodCatches(s, err)
  ELSE IF s.op = "authenticate" THEN 1 + StaticCatches(s, err)
  ELSE 1

\* cb(err), or cb(null, user).
Called(s, err, errors) ==
  [op |-> s.op, arg |-> s.arg, via |-> "callback", err |-> err, errors |-> errors,
   user |-> IF err = "none" THEN s.user ELSE NoUser, at |-> s.pc,
   times |-> Invoked(s, err), hook |-> s.hook]

\* A promise that resolves with the document whatever happened.
Settled_resolved(s, err, errors) ==
  [op |-> s.op, arg |-> s.arg, via |-> "promise", err |-> err, errors |-> errors,
   user |-> s.user, at |-> s.pc, times |-> 0, hook |-> s.hook]

\* The promise the call returned rejects with err, or resolves with user.
Settled(s, err, errors) ==
  [op |-> s.op, arg |-> s.arg, via |-> "promise", err |-> err, errors |-> errors,
   user |-> IF err = "none" THEN s.user ELSE NoUser, at |-> s.pc, times |-> 0,
   hook |-> s.hook]

\* The callback, when one was given, or else the promise, receives the
\* outcome.
Outcome(s, err, errors) ==
  IF s.arg.cb THEN Called(s, err, errors) ELSE Settled(s, err, errors)

\* The error of a query whose value cannot be cast to the type of `path`
\* (err.name === 'CastError', err.path === path).
CastError(path) == IF path = "_id" THEN "CastError _id" ELSE "CastError username"

\* A handler that rethrows what it catches.
authenticationError_rethrow(err) == err

\* The catch of the static authenticate: a CastError on the username path
\* becomes the incorrectError, any other error is rethrown (or handed to cb).
authenticationError(err) ==
  IF err = CastError(usernamePath) THEN options.username.incorrectError ELSE err

\* An error of user.authenticate reaches that catch through the promise: when
\* the static was called without cb, and in the static setPassphrase.
Caught(s, err) ==
  IF s.op = "setPassphrase" \/ (s.op = "authenticate" /\ ~s.arg.cb)
  THEN authenticationError(err) ELSE err

\* The call of slot s ends: its callback runs (a callback runs to its end
\* before the next one starts).  The document of a static is handed to the
\* caller on success only; the document of a method stays with its caller.
Complete(d, s, err, errors) ==
  /\ last = Pending
  /\ last' = Outcome(s, err, errors)
  /\ docs' = [docs EXCEPT ![d] =
                IF s.op \in Statics /\ err # "none" THEN Free ELSE Idle(s.user)]

\* done() without an error: the validators run, then the write is issued.
\* (prev: the latest outcome, when this step delivers none.)
Validated(d, s, prev) ==
  IF Invalid(s.user) = {}
  THEN /\ docs' = [docs EXCEPT ![d] = [s EXCEPT !.pc = "write"]]
       /\ last' = prev
  ELSE Complete(d, s, "ValidationError", Invalid(s.user))

\* A hook that hashes on every save of a document with a passphrase.
HookSkips_undefined(user) == user.f["passphrase"] = Undefined

\* A hook that hashes whatever a new or modified passphrase path holds.
HookSkips_unmodified(user) == ~user.isNew /\ ~isModified(user, "passphrase")

\* encryptPassphrase up to crypto.randomBytes: a stored document whose
\* passphrase is not modified, and an undefined passphrase, skip the hashing.
HookSkips(user) ==
  \/ (~user.isNew /\ ~isModified(user, "passphrase"))
  \/ user.f["passphrase"] = Undefined

\* user.save(): the pre-validate hook encryptPassphrase starts.
Save(d, s, prev) ==
  IF HookSkips(s.user)
  THEN Validated(d, [s EXCEPT !.hook = done(next(NoHook), FALSE)], prev)
  ELSE /\ docs' = [docs EXCEPT ![d] =
                     [s EXCEPT !.pc = "createSalt",
                               !.passphrase = s.user.f["passphrase"],
                               !.hook = next(NoHook)]]
       /\ last' = prev

----------------------------------------------------------------------------
\* Inputs.

Usernames ==
  IF usernamePath = "_id" THEN {ObjectId(n) : n \in 1..MaxIds}
  ELSE {<<1>>, <<32, 1>>}

\* Usernames given to authenticate: also null, and a string that is no
\* ObjectId.
Lookups == Usernames \cup {Undefined, Null, <<1>>}

RawPassphrases == {<<>>, <<1>>, <<1, 0>>}

\* Any string can be given as a new passphrase: also the hex string the
\* document has at its passphrase path.
NewPassphrases(held) == {<<>>, <<1>>, Undefined} \cup {v \in held : IsHash(v)}

Extras ==
  {NoExtra, [name |-> <<7>>, salt |-> Absent, passphrase |-> Absent],
   [name |-> <<7>>, salt |-> <<8>>, passphrase |-> <<9>>]}

\* With and without a callback.
Modes == {Fn, Val(Undefined)}

\* The same, and with a callback that throws.
Callbacks == Modes \cup {Thrower}

WithCallback(calls_) == calls_ \cup {Append(args, Fn) : args \in calls_}

\* An extra object given or not.
WithExtra(calls_) ==
  calls_ \cup {Append(args, Obj(x)) : args \in calls_, x \in Extras \ {NoExtra}}

\* The shapes of a register call: with a username and without.
RegisterCalls ==
  WithCallback(WithExtra(
    {<<Val(u), Val(p)>> : u \in Usernames \cup {Undefined}, p \in {<<>>, <<1>>, Undefined}}
    \cup {<<Val(p)>> : p \in {<<>>, <<1>>, Undefined}}))

\* The shapes of a static setPassphrase call.
SetPassphraseCalls ==
  WithCallback(WithExtra(
    {<<Val(u), Val(p), Val(n)>> :
       u \in Usernames \cup {Undefined}, p \in {<<>>, <<1>>, Undefined},
       n \in NewPassphrases({r.f["passphrase"] : r \in db})}))

\* The shapes of a call of the method setPassphrase on a document.
UserSetPassphraseCalls(user) ==
  WithCallback(WithExtra({<<Val(n)>> : n \in NewPassphrases({user.f["passphrase"]})}))

\* What a caller sets on a stored document before a save of its own.
Updates ==
  {[name |-> <<7>>, salt |-> Absent, passphrase |-> Absent],
   [name |-> Absent, salt |-> <<8>>, passphrase |-> Absent]}

----------------------------------------------------------------------------
\* The history the properties refer to.

\* A successful save that sets credentials: register, setPassphrase, or a
\* save of a document whose passphrase was modified.
CredentialSet(s) ==
  \/ s.op \in {"register", "setPassphrase", "user.setPassphrase"}
  \/ (s.op = "save" /\ isModified(s.user, "passphrase"))

Credentials(user) == [salt |-> user.f["salt"], hash |-> user.f["passphrase"]]

Registration(s) ==
  [username |-> s.arg.username, passphrase |-> s.arg.passphrase,
   id |-> s.user.id, salt |-> s.user.f["salt"], hash |-> s.user.f["passphrase"]]

\* A setPassphrase that succeeded: its arguments and what it left in the
\* document.
Change(s) ==
  [username |-> s.arg.username, old |-> s.arg.passphrase, new |-> s.arg.newPassphrase,
   extra |-> s.arg.extra, id |-> s.user.id, name |-> s.user.f["name"],
   salt |-> s.user.f["salt"], hash |-> s.user.f["passphrase"]]

History(s) ==
  /\ issued' = IF CredentialSet(s) THEN issued \cup {Credentials(s.user)} ELSE issued
  /\ registered' =
       IF s.op = "register" THEN registered \cup {Registration(s)}
       ELSE IF {"passphrase", "salt"} \cap s.user.mod # {}
            THEN {g \in registered : g.id # s.user.id}
            ELSE registered
  /\ changed' =
       LET kept == IF {"passphrase", "salt"} \cap s.user.mod # {}
                   THEN {c \in changed : c.id # s.user.id}
                   ELSE changed
       IN  IF s.op \in {"setPassphrase", "user.setPassphrase"}
           THEN kept \cup {Change(s)} ELSE kept

----------------------------------------------------------------------------
\* The operations.

\* The values the overrides give to the options.
Alternatives ==
  [username |-> [path |-> "_id", missingError |-> "No username",
                 incorrectError |-> "No such user"],
   passphrase |-> [missingError |-> "No passphrase",
                   incorrectError |-> "Wrong passphrase"],
   salt |-> [len |-> 16],
   hash |-> [iterations |-> 1000, keylen |-> 64, encoding |-> "base64"]]

\* The objects that set some of the options of group k.
Overriding(k) ==
  {[f \in S |-> Alternatives[k][f]] : S \in SUBSET DOMAIN Alternatives[k]}

\* The `options` arguments of the plugin: any of the groups, each with any of
\* its options.
Overrides ==
  UNION {{[k \in T |-> CASE k = "username" -> u
                         [] k = "passphrase" -> p
                         [] k = "salt" -> s
                         [] OTHER -> h] :
            u \in Overriding("username"), p \in Overriding("passphrase"),
            s \in Overriding("salt"), h \in Overriding("hash")} :
         T \in SUBSET DOMAIN Alternatives}

\* The state before the first call.
Start ==
  /\ db = {}
  /\ docs = [d \in Slots |-> Free]
  /\ nextId = 0
  /\ entropy = 0
  /\ calls = 0
  /\ last = Pending
  /\ issued = {}
  /\ registered = {}
  /\ changed = {}

\* The options the plugin is given: none, or the path of the username.
Plugins == {[g \in {} |-> {}], [username |-> [path |-> "_id"]]}

\* schema.plugin(auth, given): options = _.merge({...}, options || {}).
Init ==
  /\ given \in Plugins
  /\ options = merge(Defaults, given)
  /\ Start

\* The plugin applied with any of the overrides.
Overridden ==
  /\ given \in Overrides
  /\ options = merge(Defaults, given)
  /\ Start

\* User.register(...args)
Register(d, args) ==
  /\ FreeSlot(d)
  /\ nextId < MaxIds
  /\ nextId' = nextId + 1
  /\ LET a == RegisterArity(args)
         username == a.username.val
         passphrase == a.passphrase.val
         extra == a.extra.obj
         user0 == NewUser(ObjectId(nextId + 1))
         user1 == IF Given(a.username) THEN SetUsername(user0, username) ELSE user0
         user2 == IF Given(a.extra) THEN SetExtra(user1, extra) ELSE user1
         user3 == DocSet(user2, "passphrase", passphrase)
     IN  Save(d, [Free EXCEPT !.op = "register", !.user = user3,
                              !.arg = [NoArg EXCEPT !.username = username,
                                                    !.passphrase = passphrase,
                                                    !.extra = extra,
                                                    !.args = args,
                                                    !.cb = isFunction(a.cb)]],
              Pending)
  /\ UNCHANGED <<given, options, db, entropy, issued, registered, changed>>
  /\ calls < MaxCalls
  /\ calls' = calls + 1

\* createSalt: crypto.randomBytes delivers a buffer; pbkdf2 starts.
CreateSalt(d) ==
  /\ docs[d].pc = "createSalt"
  /\ entropy' = entropy + 1
  /\ docs' = [docs EXCEPT ![d].pc = "createHash", ![d].salt = randomBytes(entropy + 1)]
  /\ UNCHANGED <<given, options, db, nextId, calls, last, issued, registered, changed>>

\* A createSalt that goes on to done() when crypto.randomBytes fails.
CreateSaltError_done(d) ==
  /\ docs[d].pc = "createSalt"
  /\ Validated(d, [docs[d] EXCEPT !.hook = done(@, FALSE)], last)
  /\ UNCHANGED <<given, options, db, nextId, entropy, calls, issued, registered, changed>>

\* createSalt: crypto.randomBytes delivers an error: done(err).
CreateSaltError(d) ==
  /\ docs[d].pc = "createSalt"
  /\ Complete(d, [docs[d] EXCEPT !.hook = done(@, TRUE)], "CryptoError", {})
  /\ UNCHANGED <<given, options, db, nextId, entropy, calls, issued, registered, changed>>

\* A createHash that leaves the salt out.
Encrypted_hash(user, hash, salt) == DocSet(user, "passphrase", hash)

\* What createHash writes into the document.
Encrypted(user, hash, salt) ==
  DocSet(DocSet(user, "passphrase", hash), "salt", salt)

\* createHash: pbkdf2 resolves; hash and salt are set, done().
CreateHash(d) ==
  /\ docs[d].pc = "createHash"
  /\ LET s == docs[d]
         hash == pbkdf2(s.passphrase, s.salt)
     IN  Validated(d, [s EXCEPT !.user = Encrypted(s.user, hash, s.salt),
                                !.hook = done(@, FALSE)], last)
  /\ UNCHANGED <<given, options, db, nextId, entropy, calls, issued, registered, changed>>

\* pbkdf2 rejects in the hook: done(err).
CreateHashError(d) ==
  /\ docs[d].pc = "createHash"
  /\ Complete(d, [docs[d] EXCEPT !.hook = done(@, TRUE)], "CryptoError", {})
  /\ UNCHANGED <<given, options, db, nextId, entropy, calls, issued, registered, changed>>

\* The unique index of `_id` alone.
Duplicate_id(user) == \E r \in db : r.id = user.id

\* The unique indexes: `_id`, and the username path (unique: true).
Duplicate(user) ==
  \E r \in db :
    \/ r.id = user.id
    \/ (usernamePath # "_id" /\ r.f["username"] = user.f["username"])

Saved(user) == [user EXCEPT !.isNew = FALSE, !.mod = {}]

\* The collection after the update of the modified paths of a stored document.
Updated(user) ==
  {IF r.id = user.id
   THEN [r EXCEPT !.f = [p \in Paths |-> IF p \in user.mod THEN user.f[p] ELSE r.f[p]]]
   ELSE r : r \in db}

\* The write a validated save issues: the insert of a new document, refused
\* when a unique index has its key already; the update of a stored one.
Write(d) ==
  /\ docs[d].pc = "write"
  /\ LET s == docs[d]
     IN  IF s.user.isNew /\ Duplicate(s.user)
         THEN /\ Complete(d, s, "E11000", {})
              /\ UNCHANGED <<db, issued, registered, changed>>
         ELSE /\ db' = IF s.user.isNew
                       THEN db \cup {[id |-> s.user.id, f |-> s.user.f]}
                       ELSE Updated(s.user)
              /\ Complete(d, [s EXCEPT !.user = Saved(s.user)], "none", {})
              /\ History(s)
  /\ UNCHANGED <<given, options, nextId, entropy, calls>>

\* An authenticate that leaves the candidate passphrase in the document.
Authenticating_set(d, s, passphrase) ==
  IF passphrase = Undefined \/ passphrase = Null
  THEN Complete(d, s, options.passphrase.missingError, {})
  ELSE /\ docs' = [docs EXCEPT ![d] =
                     [s EXCEPT !.pc = "checkHash", !.passphrase = passphrase,
                               !.salt = s.user.f["salt"],
                               !.user = DocSet(s.user, "passphrase", passphrase)]]
       /\ last' = Pending

\* user.authenticate(passphrase, cb): a missing passphrase is reported at
\* once; otherwise pbkdf2 starts over the passphrase and the document's salt.
Authenticating(d, s, passphrase) ==
  IF passphrase = Undefined \/ passphrase = Null
  THEN Complete(d, s, Caught(s, options.passphrase.missingError), {})
  ELSE /\ docs' = [docs EXCEPT ![d] =
                     [s EXCEPT !.pc = "checkHash", !.passphrase = passphrase,
                               !.salt = s.user.f["salt"]]]
       /\ last' = Pending

\* A static authenticate that looks at the passphrase before the username.
Authenticated_passphrase(d, s, username, passphrase) ==
  IF passphrase = Undefined \/ passphrase = Null
  THEN /\ last = Pending
       /\ last' = Outcome(s, options.passphrase.missingError, {})
       /\ UNCHANGED docs
  ELSE IF username = Undefined \/ username = Null
  THEN /\ last = Pending
       /\ last' = Outcome(s, options.username.missingError, {})
       /\ UNCHANGED docs
  ELSE IF CastFails(username)
  THEN /\ last = Pending
       /\ last' = Outcome(s, authenticationError(CastError(usernamePath)), {})
       /\ UNCHANGED docs
  ELSE IF Found(username) = {}
  THEN /\ last = Pending
       /\ last' = Outcome(s, authenticationError(options.username.incorrectError), {})
       /\ UNCHANGED docs
  ELSE /\ FreeSlot(d)
       /\ \E r \in Found(username) :
            Authenticating(d, [s EXCEPT !.pc = "authenticated", !.user = Loaded(r)],
                           passphrase)

\* The static authenticate up to user.authenticate: a missing username, then
\* the query; a CastError on the username path and no match are both reported
\* as an unknown username.
Authenticated(d, s, username, passphrase) ==
  IF username = Undefined \/ username = Null
  THEN /\ last = Pending
       /\ last' = Outcome(s, options.username.missingError, {})
       /\ UNCHANGED docs
  ELSE IF CastFails(username)
  THEN /\ last = Pending
       /\ last' = Outcome(s, authenticationError(CastError(usernamePath)), {})
       /\ UNCHANGED docs
  ELSE IF Found(username) = {}
  THEN /\ last = Pending
       /\ last' = Outcome(s, authenticationError(options.username.incorrectError), {})
       /\ UNCHANGED docs
  ELSE /\ FreeSlot(d)
       /\ \E r \in Found(username) :
            Authenticating(d, [s EXCEPT !.pc = "authenticated", !.user = Loaded(r)],
                           passphrase)

\* User.authenticate(username, passphrase, cb)
Authenticate(d, username, passphrase, cb) ==
  /\ Authenticated(d, [Free EXCEPT !.op = "authenticate",
                                   !.arg = [NoArg EXCEPT !.username = username,
                                                         !.passphrase = passphrase,
                                                         !.cb = isFunction(cb),
                                                         !.throws = (cb = Thrower)]],
                   username, passphrase)
  /\ UNCHANGED <<given, options, db, nextId, entropy, issued, registered, changed>>
  /\ calls < MaxCalls
  /\ calls' = calls + 1

\* User.setPassphrase(...args): the static authenticate first.
SetPassphrase(d, args) ==
  /\ LET a == SetPassphraseArity(args)
         username == Param(args, 1).val
         passphrase == Param(args, 2).val
     IN  Authenticated(d, [Free EXCEPT !.op = "setPassphrase",
                                      !.arg = [NoArg EXCEPT !.username = username,
                                                            !.passphrase = passphrase,
                                                            !.newPassphrase = Param(args, 3).val,
                                                            !.extra = a.extra.obj,
                                                            !.args = args,
                                                            !.cb = isFunction(a.cb)]],
                       username, passphrase)
  /\ UNCHANGED <<given, options, db, nextId, entropy, issued, registered, changed>>
  /\ calls < MaxCalls
  /\ calls' = calls + 1

\* The body of the method setPassphrase: the passphrase, then the extra
\* fields, are set, and the document is saved.
SettingPassphrase(d, s, passphrase, extra, prev) ==
  Save(d, [s EXCEPT !.user = SetExtra(DocSet(s.user, "passphrase", passphrase), extra)],
       prev)

\* A static setPassphrase that goes on to the method whatever the hash is.
CheckHash_unchecked(d) ==
  /\ docs[d].pc = "checkHash"
  /\ LET s == docs[d]
         hash == pbkdf2(s.passphrase, s.salt)
     IN  IF s.op = "setPassphrase"
         THEN SettingPassphrase(d, s, s.arg.newPassphrase, s.arg.extra, last)
         ELSE IF hash # s.user.f["passphrase"]
         THEN Complete(d, s, Caught(s, options.passphrase.incorrectError), {})
         ELSE Complete(d, s, "none", {})
  /\ UNCHANGED <<given, options, db, nextId, entropy, calls, issued, registered, changed>>

\* checkHash: pbkdf2 resolves; the hash is compared with the document's.  The
\* static setPassphrase goes on with user.setPassphrase(newPassphrase, extra).
CheckHash(d) ==
  /\ docs[d].pc = "checkHash"
  /\ LET s == docs[d]
         hash == pbkdf2(s.passphrase, s.salt)
     IN  IF hash # s.user.f["passphrase"]
         THEN Complete(d, s, Caught(s, options.passphrase.incorrectError), {})
         ELSE IF s.op = "setPassphrase"
         THEN SettingPassphrase(d, s, s.arg.newPassphrase, s.arg.extra, last)
         ELSE Complete(d, s, "none", {})
  /\ UNCHANGED <<given, options, db, nextId, entropy, calls, issued, registered, changed>>

\* pbkdf2 rejects in authenticate.
CheckHashError(d) ==
  /\ docs[d].pc = "checkHash"
  /\ Complete(d, docs[d], Caught(docs[d], "CryptoError"), {})
  /\ UNCHANGED <<given, options, db, nextId, entropy, calls, issued, registered, changed>>

\* user.authenticate(passphrase, cb) on a document the caller holds.
UserAuthenticate(d, passphrase, cb) ==
  /\ docs[d].pc = "idle"
  /\ Authenticating(d, [docs[d] EXCEPT !.op = "user.authenticate",
                                       !.arg = [NoArg EXCEPT !.this = <<d>>,
                                                             !.passphrase = passphrase,
                                                             !.cb = isFunction(cb),
                                                             !.throws = (cb = Thrower)]],
                    passphrase)
  /\ UNCHANGED <<given, options, db, nextId, entropy, issued, registered, changed>>
  /\ calls < MaxCalls
  /\ calls' = calls + 1

\* user.setPassphrase(...args) on a document the caller holds.
UserSetPassphrase(d, args) ==
  /\ docs[d].pc = "idle"
  /\ LET a == UserSetPassphraseArity(args)
         passphrase == Param(args, 1).val
     IN  SettingPassphrase(d, [docs[d] EXCEPT !.op = "user.setPassphrase",
                                             !.arg = [NoArg EXCEPT !.this = <<d>>,
                                                                   !.newPassphrase = passphrase,
                                                                   !.extra = a.extra.obj,
                                                                   !.args = args,
                                                                   !.cb = isFunction(a.cb)]],
                           passphrase, a.extra.obj, Pending)
  /\ UNCHANGED <<given, options, db, nextId, entropy, issued, registered, changed>>
  /\ calls < MaxCalls
  /\ calls' = calls + 1

\* user.passphrase = passphrase; user.save(cb), or user.save(cb) alone (Absent),
\* on a document the caller holds.
UserSave(d, passphrase) ==
  /\ docs[d].pc = "idle"
  /\ LET s == [docs[d] EXCEPT !.op = "save",
                              !.arg = [NoArg EXCEPT !.this = <<d>>,
                                                    !.newPassphrase = passphrase]]
     IN  Save(d, IF passphrase = Absent THEN s
                 ELSE [s EXCEPT !.user = DocSet(s.user, "passphrase", passphrase)],
              Pending)
  /\ UNCHANGED <<given, options, db, nextId, entropy, issued, registered, changed>>
  /\ calls < MaxCalls
  /\ calls' = calls + 1

\* user.set(update); user.save(cb) on a document the caller holds: a save that
\* leaves the passphrase path alone.
UserUpdate(d, update) ==
  /\ docs[d].pc = "idle"
  /\ Save(d, [docs[d] EXCEPT !.op = "save",
                             !.user = SetExtra(docs[d].user, update),
                             !.arg = [NoArg EXCEPT !.this = <<d>>,
                                                   !.newPassphrase = Absent,
                                                   !.extra = update]],
          Pending)
  /\ UNCHANGED <<given, options, db, nextId, entropy, issued, registered, changed>>
  /\ calls < MaxCalls
  /\ calls' = calls + 1

\* user.set(options.username.path, username); user.save(cb) on a new
\* document the caller holds (one whose save has failed).
UserRename(d, username) ==
  /\ docs[d].pc = "idle"
  /\ docs[d].user.isNew
  /\ Save(d, [docs[d] EXCEPT !.op = "save",
                             !.user = SetUsername(docs[d].user, username),
                             !.arg = [NoArg EXCEPT !.this = <<d>>,
                                                   !.username = username,
                                                   !.newPassphrase = Absent]],
          Pending)
  /\ UNCHANGED <<given, options, db, nextId, entropy, issued, registered, changed>>
  /\ calls < MaxCalls
  /\ calls' = calls + 1

\* new User({username: username, passphrase: passphrase}).save(cb): the
\* caller makes a document of its own and saves it.
Create(d, username, passphrase) ==
  /\ FreeSlot(d)
  /\ nextId < MaxIds
  /\ nextId' = nextId + 1
  /\ LET user0 == NewUser(ObjectId(nextId + 1))
         user1 == IF username # Undefined THEN SetUsername(user0, username) ELSE user0
         user2 == IF passphrase # Undefined THEN DocSet(user1, "passphrase", passphrase)
                  ELSE user1
     IN  Save(d, [Free EXCEPT !.op = "save", !.user = user2,
                              !.arg = [NoArg EXCEPT !.username = username,
                                                    !.newPassphrase = passphrase]],
              Pending)
  /\ UNCHANGED <<given, options, db, entropy, issued, registered, changed>>
  /\ calls < MaxCalls
  /\ calls' = calls + 1

\* The caller drops a document it holds.
Release(d) ==
  /\ docs[d].pc = "idle"
  /\ docs' = [docs EXCEPT ![d] = Free]
  /\ UNCHANGED <<given, options, db, nextId, entropy, calls, last, issued, registered, changed>>

\* user.set(options.passphrase.path, passphrase) by the holder of a document
\* whose save waits for crypto.randomBytes or crypto.pbkdf2: after the hook
\* has read the passphrase and before it sets the hash.
UserSet(d, passphrase) ==
  /\ docs[d].pc \in {"createSalt", "createHash"}
  /\ docs' = [docs EXCEPT ![d].user = DocSet(@, "passphrase", passphrase)]
  /\ UNCHANGED <<given, options, db, nextId, entropy, calls, last, issued, registered, changed>>

\* The outcome is the error of the save that the static setPassphrase ran
\* with the caller's callback.
SaveFailed(o) ==
  /\ o.op = "setPassphrase"
  /\ o.via = "callback"
  /\ \/ o.err = "ValidationError"
     \/ (o.err = "CryptoError" /\ o.at \in {"createSalt", "createHash"})

\* The promise user.save(cb) returned rejects although cb has taken the
\* error (a mongoose that calls cb and rejects): the catch of the static
\* setPassphrase calls cb(err).
SaveRejected ==
  /\ SaveFailed(last)
  /\ last.times = 1
  /\ last' = [last EXCEPT !.times = 2]
  /\ UNCHANGED <<given, options, db, docs, nextId, entropy, calls, issued, registered, changed>>

\* No call is in flight, and the caller has taken the latest outcome: the
\* caller makes one call at a time.
Quiet == last = Pending /\ \A d \in Slots : docs[d].pc \in {"free", "idle"}

\* The callback (or the promise's handler) that received the outcome returns.
Return ==
  /\ last # Pending
  /\ last' = Pending
  /\ UNCHANGED <<given, options, db, docs, nextId, entropy, calls, issued, registered, changed>>

\* The slots of the caller who makes one call at a time.
Sequential == 1..MaxHeld

Next ==
  \/ Quiet /\ \E d \in Sequential, args \in RegisterCalls : Register(d, args)
  \/ \E d \in Sequential : CreateSalt(d)
  \/ \E d \in Sequential : CreateSaltError(d)
  \/ \E d \in Sequential : CreateHash(d)
  \/ \E d \in Sequential : CreateHashError(d)
  \/ \E d \in Sequential : Write(d)
  \/ Quiet /\ \E d \in Sequential, u \in Lookups, p \in RawPassphrases \cup {Undefined, Null},
                 cb \in Callbacks : Authenticate(d, u, p, cb)
  \/ Quiet /\ \E d \in Sequential, args \in SetPassphraseCalls : SetPassphrase(d, args)
  \/ \E d \in Sequential : CheckHash(d)
  \/ \E d \in Sequential : CheckHashError(d)
  \/ Quiet /\ \E d \in Sequential, p \in RawPassphrases \cup {Undefined}, cb \in Callbacks :
                 UserAuthenticate(d, p, cb)
  \/ Quiet /\ \E d \in Sequential :
                 \E args \in UserSetPassphraseCalls(docs[d].user) : UserSetPassphrase(d, args)
  \/ Quiet /\ \E d \in Sequential :
                 \E p \in NewPassphrases({docs[d].user.f["passphrase"]}) \cup {Absent} :
                   UserSave(d, p)
  \/ Quiet /\ \E d \in Sequential, x \in Updates : UserUpdate(d, x)
  \/ Quiet /\ \E d \in Sequential, u \in Usernames, p \in {<<>>, <<1>>, Undefined} :
                 Create(d, u, p)
  \/ Quiet /\ \E d \in Sequential, u \in Usernames : UserRename(d, u)
  \/ Quiet /\ \E d \in Sequential : Release(d)
  \/ SaveRejected
  \/ Return

Spec == Init /\ [][Next]_vars

\* Saves alone: of new documents and of stored ones, with the passphrase set
\* or left as it is.
Saves ==
  \/ Quiet /\ \E d \in Sequential, u \in Usernames, p \in {<<1>>, Undefined} : Create(d, u, p)
  \/ Quiet /\ \E d \in Sequential, p \in {<<>>, Absent} : UserSave(d, p)
  \/ \E d \in Sequential : CreateSalt(d)
  \/ \E d \in Sequential : CreateSaltError(d)
  \/ \E d \in Sequential : CreateHash(d)
  \/ \E d \in Sequential : CreateHashError(d)
  \/ \E d \in Sequential : Write(d)
  \/ Return

\* crypto.randomBytes and crypto.pbkdf2 call back in the end, with a result or
\* with an error.
HookSpec ==
  /\ Init
  /\ [][Saves]_vars
  /\ WF_vars(\E d \in Sequential : CreateSalt(d) \/ CreateSaltError(d))
  /\ WF_vars(\E d \in Sequential : CreateHash(d) \/ CreateHashError(d))

\* A user is registered and authenticates, whatever the options are.
Configuring ==
  \/ Quiet /\ \E d \in Sequential, u \in Usernames : Register(d, <<Val(u), Val(<<1>>), Fn>>)
  \/ \E d \in Sequential : CreateSalt(d)
  \/ \E d \in Sequential : CreateHash(d)
  \/ \E d \in Sequential : Write(d)
  \/ Quiet /\ \E d \in Sequential, u \in Lookups, p \in {<<1>>, <<2>>, Undefined} :
                 Authenticate(d, u, p, Fn)
  \/ \E d \in Sequential : CheckHash(d)
  \/ Quiet /\ \E d \in Sequential : Release(d)
  \/ Return

OptionSpec == Overridden /\ [][Configuring]_vars

\* Callers that do not wait for one another: a registered user, and static
\* setPassphrase calls in flight together, each with the registered passphrase.
Contending ==
  \/ Quiet /\ \E d \in Slots, u \in Usernames : Register(d, <<Val(u), Val(<<1>>), Fn>>)
  \/ last = Pending /\ \E d \in Slots, u \in Usernames, p \in {<<2>>, <<3>>} :
                         SetPassphrase(d, <<Val(u), Val(<<1>>), Val(p), Fn>>)
  \/ \E d \in Slots : CheckHash(d)
  \/ \E d \in Slots : CreateSalt(d)
  \/ \E d \in Slots : CreateHash(d)
  \/ \E d \in Slots : Write(d)
  \/ \E d \in Slots : Release(d)
  \/ Return

ContendSpec == Init /\ [][Contending]_vars

\* Saves of a document whose holder sets the passphrase while they run.
Setting ==
  \/ Quiet /\ \E d \in Sequential, u \in Usernames : Create(d, u, <<1>>)
  \/ Quiet /\ \E d \in Sequential, p \in {<<1>>, <<3>>, Absent} : UserSave(d, p)
  \/ \E d \in Sequential, p \in {<<2>>, <<3>>} : UserSet(d, p)
  \/ \E d \in Sequential : CreateSalt(d)
  \/ \E d \in Sequential : CreateHash(d)
  \/ \E d \in Sequential : Write(d)
  \/ Return

SetSpec == Init /\ [][Setting]_vars

\* The same callers, and documents that their holders make, save and, when the
\* save failed, save once more under another username.
Interleaving ==
  \/ Contending
  \/ last = Pending /\ \E d \in Slots, u \in Usernames : Create(d, u, <<2>>)
  \/ last = Pending /\ \E d \in Slots, u \in Usernames : UserRename(d, u)

InterleavedSpec == Init /\ [][Interleaving]_vars

\* Callers that do not wait for one another: register calls in flight together.
Racing ==
  \/ \E d \in Slots, u \in Usernames \cup {Undefined}, p \in {<<1>>, Undefined} :
        Register(d, <<Val(u), Val(p), Fn>>)
  \/ \E d \in Slots : CreateSalt(d)
  \/ \E d \in Slots : CreateHash(d)
  \/ \E d \in Slots : Write(d)
  \/ \E d \in Slots : Release(d)
  \/ Return

RaceSpec == Init /\ [][Racing]_vars

----------------------------------------------------------------------------
\* Properties.

\* A call of `op` has just delivered its outcome.
Delivered(ops) == last.op \in ops /\ last.err # "pending"

\* The persisted users a static authenticate looks among.
Matching(username) == IF CastFails(username) THEN {} ELSE Found(username)

\* C1: once register(u, P) has succeeded and the passphrase of u was not
\* changed since, the static authenticate(u, P) succeeds (unless the key
\* derivation itself reports an error) and yields the user with the same id,
\* whose salt and hash are the ones stored at registration.
C1_RoundTrip ==
  \A g \in registered :
    (/\ Delivered({"authenticate"})
     /\ g.username # Undefined
     /\ last.arg.username = g.username
     /\ last.arg.passphrase = g.passphrase
     /\ last.err # "CryptoError")
    => /\ last.err = "none"
       /\ last.user.id = g.id
       /\ last.user.f["salt"] = g.salt
       /\ last.user.f["passphrase"] = g.hash

\* The document a method was called on.
This == docs[last.arg.this[1]].user

\* The outcome in `last` is that of an authenticate, static or method, against
\* the credentials registration g stored.
Against(g) ==
  \/ /\ Delivered({"authenticate"})
     /\ \E r \in Matching(last.arg.username) :
          r.id = g.id /\ Credentials(r) = [salt |-> g.salt, hash |-> g.hash]
  \/ /\ Delivered({"user.authenticate"})
     /\ This.id = g.id
     /\ Credentials(This) = [salt |-> g.salt, hash |-> g.hash]

IsString(v) == v = <<>> \/ v[1] >= 0

\* C2 as stated: authenticate with any candidate passphrase that differs from
\* the registered one fails with 'Incorrect passphrase' and yields no user.
C2_AnyOtherPassphrase ==
  \A g \in registered :
    (/\ Against(g)
     /\ IsString(last.arg.passphrase)
     /\ last.arg.passphrase # g.passphrase
     /\ last.err # "CryptoError")
    => last.err = "Incorrect passphrase" /\ last.user = NoUser

\* C2: authenticate (static and method) with a candidate passphrase whose
\* HMAC key differs from that of the registered passphrase (the two differ in
\* more than trailing NUL characters) fails with 'Incorrect passphrase' and
\* yields no user.
C2_IncorrectPassphrase ==
  \A g \in registered :
    (/\ Against(g)
     /\ IsString(last.arg.passphrase)
     /\ HmacKey(last.arg.passphrase) # HmacKey(g.passphrase)
     /\ last.err # "CryptoError")
    => last.err = "Incorrect passphrase" /\ last.user = NoUser

C2_Witness ==
  \E g \in registered :
    /\ Against(g)
    /\ last.op = "user.authenticate"
    /\ IsString(last.arg.passphrase)
    /\ HmacKey(last.arg.passphrase) # HmacKey(g.passphrase)
    /\ last.err = "Incorrect passphrase"

\* The raw passphrase a credential-setting call was given.
Supplied ==
  IF last.op = "register" THEN last.arg.passphrase ELSE last.arg.newPassphrase

SetOps == {"register", "setPassphrase", "user.setPassphrase", "save"}

\* C3: after a successful register, setPassphrase (static or method) or save
\* the value persisted at the passphrase path is a derived hash and differs
\* from the raw passphrase the call supplied.
C3_NeverRaw ==
  (Delivered(SetOps) /\ last.err = "none" /\ Supplied # Absent)
  => \A r \in db :
       r.id = last.user.id => IsHash(r.f["passphrase"]) /\ r.f["passphrase"] # Supplied

\* The username of a persisted user, and the one a register call persists.
Key(r) == IF usernamePath = "_id" THEN r.id ELSE r.f["username"]

\* A register call with a username delivers its outcome in this step.
Registers == last' # last /\ last'.op = "register" /\ last'.arg.username # Undefined

\* C4: whatever the interleaving of register calls, no two persisted users
\* have the same username; a register call whose username is persisted already
\* delivers an error and no user; no step changes or removes a persisted user.
C4_UniqueUsername ==
  /\ [](\A r1, r2 \in db : Key(r1) = Key(r2) => r1 = r2)
  /\ [][/\ (Registers /\ \E r \in db : Key(r) = Cast("username", last'.arg.username))
           => (last'.err # "none" /\ last'.user = NoUser /\ db' = db)
        /\ db \subseteq db']_vars

C4_Witness ==
  /\ last.op = "register"
  /\ last.err = "E11000"
  /\ \E r \in db : Key(r) = Cast("username", last.arg.username)

\* The latest outcome is that of a save of a new user: register, or the save
\* of a document the caller made.
NewUserSaved ==
  /\ Delivered({"register", "save"})
  /\ last.arg.this = Undefined

\* C5: registering or saving a new user with an empty or undefined passphrase
\* delivers 'Passphrase was not specified' and persists nothing.
C5_MissingPassphrase ==
  (NewUserSaved /\ Supplied \in {<<>>, Undefined} /\ last.err # "CryptoError")
  => last.err = "Passphrase was not specified"

\* C6: authenticate of a known user with an empty or absent passphrase delivers
\* 'Passphrase was not specified'.
C6_MissingPassphrase ==
  (/\ Delivered({"authenticate", "user.authenticate"})
   /\ last.op = "authenticate" => Matching(last.arg.username) # {}
   /\ last.arg.passphrase \in {<<>>, Undefined, Null}
   /\ last.err # "CryptoError")
  => last.err = "Passphrase was not specified"

\* A register call without a passphrase has delivered its outcome.
Unregistered == Delivered({"register"}) /\ last.arg.passphrase = Undefined

\* The required paths such a call leaves unsatisfied when `extra` has no salt.
Unsatisfied ==
  {"salt", "passphrase"} \cup
    (IF usernamePath = "username" /\ last.arg.username = Undefined
     THEN {"username"} ELSE {})

C8_Precedence ==
  (Delivered({"authenticate"}) /\ last.err # "CryptoError")
  => LET u == last.arg.username
         p == last.arg.passphrase
     IN  /\ IF IsMissing(u) THEN last.err = "Username was not specified"
            ELSE IF Matching(u) = {} THEN last.err = "Unknown username"
            ELSE IF IsMissing(p) THEN last.err = "Passphrase was not specified"
            ELSE IF \A r \in Matching(u) : pbkdf2(p, r.f["salt"]) # r.f["passphrase"]
            THEN last.err = "Incorrect passphrase"
            ELSE /\ last.err = "none"
                 /\ \E r \in Matching(u) : r.id = last.user.id
         /\ last.err # "none" => last.user = NoUser

C8_Witness ==
  /\ Delivered({"authenticate"})
  /\ last.err = "Unknown username"
  /\ ~IsMissing(last.arg.username)
  /\ IsMissing(last.arg.passphrase)
  /\ db # {}

\* C9: every successful credential-set operation (register, setPassphrase
\* static or method, save with a modified passphrase) stores a salt and a hash
\* that no earlier credential-set operation stored.
C9_Fresh ==
  [][\A d \in Slots :
       (/\ docs[d].pc = "write"
        /\ last' # last
        /\ last'.err = "none"
        /\ CredentialSet(docs[d]))
       => \A c \in issued :
            /\ c.salt # docs[d].user.f["salt"]
            /\ c.hash # docs[d].user.f["passphrase"]]_vars

\* C10: no persisted user has a salt without a hash or a hash without a salt,
\* and a step of the hook (createSalt, createHash) on a document changes its
\* passphrase path exactly when it changes its salt path.
C10_SetTogether ==
  /\ [](\A r \in db : IsMissing(r.f["salt"]) <=> IsMissing(r.f["passphrase"]))
  /\ [][\A d \in Slots :
          (/\ docs[d].pc \in {"createSalt", "createHash"}
           /\ docs'[d].user.id = docs[d].user.id)
          => ((docs'[d].user.f["passphrase"] # docs[d].user.f["passphrase"])
              <=> (docs'[d].user.f["salt"] # docs[d].user.f["salt"]))]_vars

C10_Witness ==
  \E d \in Slots :
    /\ docs[d].pc = "write"
    /\ ~docs[d].user.isNew
    /\ IsHash(docs[d].user.f["passphrase"])
    /\ docs[d].user.f["salt"] = docs[d].salt
    /\ \E r \in db : r.id = docs[d].user.id /\ r.f["salt"] # docs[d].salt

\* The paths the plugin adds.
PluginPaths == {"username", "salt", "passphrase"}

\* Every persisted user keeps its salt and hash in this step.
CredentialsKept ==
  \A r \in db : \E r2 \in db' : r2.id = r.id /\ Credentials(r2) = Credentials(r)

\* The hook never hashes for a stored document whose passphrase is not modified.
NoHashing ==
  \A d \in Slots :
    docs[d].pc \in {"createSalt", "createHash"}
    => docs[d].user.isNew \/ isModified(docs[d].user, "passphrase")

C12_NewPassphrase ==
  /\ (Delivered({"setPassphrase"}) /\ last.err = "none")
     => \E r \in Matching(last.arg.username) : r.id = last.user.id
  /\ \A c \in changed :
       (c.extra = NoExtra /\ Against(c) /\ last.err # "CryptoError")
       => /\ last.arg.passphrase = c.new
             => /\ last.err = "none"
                /\ last.user.id = c.id
                /\ Credentials(last.user) = [salt |-> c.salt, hash |-> c.hash]
          /\ (IsString(c.old) /\ c.old # c.new /\ last.arg.passphrase = c.old)
             => last.err = "Incorrect passphrase"

AuthOps == {"authenticate", "user.authenticate"}

\* A step of an authenticate call: its start, its checkHash, its outcome.
AuthStep ==
  \/ \E d \in Slots : docs[d].op \in AuthOps \/ docs'[d].op \in AuthOps
  \/ (last' # last /\ last'.op \in AuthOps)

\* C13: no step of an authenticate call (static or method, succeeding or
\* failing) changes a persisted record, draws random bytes or changes a path
\* of a document in memory; the user the static delivers carries the persisted
\* salt and hash, and the user the method delivers is the document it was
\* called on, as it was.
C13_SideEffectFree ==
  /\ [][AuthStep
        => /\ db' = db
           /\ entropy' = entropy
           /\ \A d \in Slots :
                (docs[d].pc # "free" /\ docs'[d].pc # "free")
                => docs'[d].user = docs[d].user]_vars
  /\ []((Delivered({"authenticate"}) /\ last.err = "none")
        => \E r \in db : r.id = last.user.id /\ Credentials(r) = Credentials(last.user))
  /\ []((Delivered({"user.authenticate"}) /\ last.err = "none") => last.user = This)

C13_Witness ==
  /\ Delivered({"user.authenticate"})
  /\ last.err = "Incorrect passphrase"
  /\ IsHash(This.f["passphrase"])
  /\ \E r \in db : r.id = This.id /\ Credentials(r) = Credentials(This)

\* The hook of slot d ends with the error of crypto: the save delivers it,
\* writes nothing, draws nothing again and leaves the document as it was.
Propagated(d) ==
  /\ last' = [Outcome(docs[d], "CryptoError", {}) EXCEPT !.hook = last'.hook]
  /\ db' = db
  /\ entropy' = entropy
  /\ docs'[d].pc \in {"idle", "free"}
  /\ docs'[d].pc = "idle" => docs'[d].user = docs[d].user

\* crypto.randomBytes delivered a buffer to slot d.
RandomDrawn(d) ==
  entropy' = entropy + 1 /\ docs'[d].pc = "createHash" /\ last' = last

\* pbkdf2 resolved for slot d: the document has the hash and the salt.
Derived(d) ==
  /\ last'.err # "CryptoError"
  /\ docs'[d].pc = "write"
     => Credentials(docs'[d].user) =
          [salt |-> docs[d].salt, hash |-> pbkdf2(docs[d].passphrase, docs[d].salt)]

\* C14: a save whose hook does not get its random bytes, or its derived key,
\* delivers that error and no user, is not retried, persists nothing and
\* leaves the passphrase and salt paths of the document as they were.
C14_CryptoFailure ==
  /\ [][\A d \in Slots :
          docs'[d] # docs[d]
          => /\ docs[d].pc = "createSalt" => (RandomDrawn(d) \/ Propagated(d))
             /\ docs[d].pc = "createHash" => (Derived(d) \/ Propagated(d))]_vars
  /\ []((Delivered(SetOps) /\ last.err = "CryptoError") => last.user = NoUser)

C14_Witness ==
  /\ Delivered(SetOps)
  /\ last.err = "CryptoError"
  /\ last.arg.this # Undefined
  /\ isModified(This, "passphrase")
  /\ ~IsHash(This.f["passphrase"])
  /\ \E r \in db : r.id = This.id /\ IsHash(r.f["passphrase"])

\* The calls that take a callback or return a promise.
ModeOps == {"register", "authenticate", "user.authenticate", "setPassphrase",
            "user.setPassphrase"}

\* What a call delivers, whichever way it delivers it: a user on success (for
\* a static the document handed over, for a method the document it was called
\* on) and none with an error; the errors of authentication by the rule of
\* authenticate; a validation error for a register without passphrase.
Rule ==
  LET u == last.arg.username
      p == last.arg.passphrase
  IN  /\ last.err # "none" => last.user = NoUser
      /\ last.err = "none"
         => \E d \in Slots : docs[d].pc = "idle" /\ docs[d].user = last.user
      /\ last.op \in {"authenticate", "setPassphrase"}
         => /\ IsMissing(u) <=> last.err = "Username was not specified"
            /\ (~IsMissing(u) /\ Matching(u) = {}) <=> last.err = "Unknown username"
            /\ (~IsMissing(u) /\ Matching(u) # {} /\ IsMissing(p))
               <=> last.err = "Passphrase was not specified"
            /\ last.err = "Incorrect passphrase"
               => \A r \in Matching(u) : pbkdf2(p, r.f["salt"]) # r.f["passphrase"]
      /\ last.op = "user.authenticate"
         => /\ IsMissing(p) <=> last.err = "Passphrase was not specified"
            /\ (~IsMissing(p) /\ pbkdf2(p, This.f["salt"]) # This.f["passphrase"]
                /\ last.err # "CryptoError")
               <=> last.err = "Incorrect passphrase"
      /\ (last.op = "register" /\ p = Undefined) => last.err = "ValidationError"

Documented(args) ==
  LET none == Val(Undefined)
      n == Len(args)
  IN  IF n = 1 THEN <<none, args[1], none, none>>
      ELSE IF n = 2
      THEN IF args[2].kind = "function" THEN <<none, args[1], none, args[2]>>
           ELSE IF args[2].kind = "object" THEN <<none, args[1], args[2], none>>
           ELSE <<args[1], args[2], none, none>>
      ELSE IF n = 3
      THEN IF args[3].kind # "function" THEN <<args[1], args[2], args[3], none>>
           ELSE IF args[2].kind = "object" THEN <<none, args[1], args[2], args[3]>>
           ELSE <<args[1], args[2], none, args[3]>>
      ELSE <<args[1], args[2], args[3], args[4]>>

\* C16: register takes its arguments as documented, and the user a successful
\* register saves has the username given (as the username path casts it; an
\* ObjectId of its own when none is given), the extra fields, and the hash of
\* the passphrase given.
C16_RegisterArity ==
  Delivered({"register"})
  => LET a == Documented(last.arg.args)
     IN  /\ last.arg.username = a[1].val
         /\ last.arg.passphrase = a[2].val
         /\ last.arg.extra = a[3].obj
         /\ last.arg.cb = (a[4].kind = "function")
         /\ last.err = "none"
            => /\ \E r \in db : r.id = last.user.id /\ r.f = last.user.f
               /\ IF a[1].val = Undefined THEN IsObjectId(last.user.id)
                  ELSE IF usernamePath = "_id" THEN last.user.id = a[1].val
                  ELSE last.user.f["username"] = Trim(a[1].val)
               /\ last.user.f["name"] =
                    IF a[3].obj.name = Absent THEN Undefined ELSE a[3].obj.name
               /\ last.user.f["passphrase"] = pbkdf2(a[2].val, last.user.f["salt"])

C16_Witness ==
  /\ Delivered({"register"})
  /\ last.err = "none"
  /\ Len(last.arg.args) = 3
  /\ last.arg.args[2].kind = "object"
  /\ last.arg.args[3].kind = "function"
  /\ last.user.f["name"] = <<7>>

ChangeOps == {"setPassphrase", "user.setPassphrase"}

\* The place of `extra` among the arguments of a setPassphrase.
ExtraAt(op) == IF op = "setPassphrase" THEN 4 ELSE 2

\* The call was made with a function, or a plain object, for `extra`.
ExtraIs(s, kind) ==
  /\ Len(s.arg.args) >= ExtraAt(s.op)
  /\ s.arg.args[ExtraAt(s.op)].kind = kind

\* The setPassphrase call that slot d is in, or starts, in this step.
Changing(d) ==
  IF docs[d].op \in ChangeOps THEN [op |-> docs[d].op, arg |-> docs[d].arg]
  ELSE IF docs'[d].op \in ChangeOps THEN [op |-> docs'[d].op, arg |-> docs'[d].arg]
  ELSE IF last = Pending /\ last'.op = "user.setPassphrase" /\ last'.arg.this = <<d>>
  THEN [op |-> last'.op, arg |-> last'.arg]
  ELSE [op |-> "none", arg |-> NoArg]

\* C17: a setPassphrase (static with 4 arguments, method with 2) whose last
\* argument is a function delivers to that function, and no step of it sets
\* another field of the document: its save stores no field but the salt and
\* hash (and what the caller had modified before).  The save of a
\* setPassphrase with a plain object stores the fields of the object in the
\* one write that stores the salt and hash of the call (new ones when the
\* passphrase was modified), on the record that had the id before.
C17_ExtraOrCallback ==
  /\ []((Delivered(ChangeOps) /\ ExtraIs(last, "function"))
        => /\ Len(last.arg.args) = ExtraAt(last.op)
           /\ last.via = "callback"
           /\ last.arg.extra = NoExtra)
  /\ [][\A d \in Slots :
          (ExtraIs(Changing(d), "function") /\ docs'[d].pc # "free")
          => /\ docs'[d].user.f["name"] = docs[d].user.f["name"]
             /\ "name" \in docs'[d].user.mod => "name" \in docs[d].user.mod]_vars
  /\ [][\A d \in Slots :
          (/\ docs[d].pc = "write"
           /\ docs[d].op \in ChangeOps
           /\ ~docs[d].user.isNew
           /\ last'.err = "none")
          => \E r \in db :
               LET s == docs[d]
                   w == [r EXCEPT !.f["salt"] = last'.user.f["salt"],
                                  !.f["passphrase"] = last'.user.f["passphrase"]]
               IN  /\ r.id = s.user.id
                   /\ last'.user.id = r.id
                   /\ s.op = "setPassphrase" => r \in Matching(s.arg.username)
                   /\ (ExtraIs(s, "function") /\ "name" \notin s.user.mod)
                      => db' = (db \ {r}) \cup {w}
                   /\ ExtraIs(s, "object")
                      => /\ s.arg.extra = s.arg.args[ExtraAt(s.op)].obj
                         /\ db' = (db \ {r}) \cup {[w EXCEPT !.f["name"] = s.arg.extra.name]}
                         /\ "passphrase" \in s.user.mod
                            => /\ Credentials(w) \notin issued
                               /\ w.f["salt"] \in {randomBytes(n) : n \in 1..entropy}
                               /\ IsHash(w.f["passphrase"])]_vars

C17_Witness ==
  /\ Delivered({"setPassphrase"})
  /\ last.err = "none"
  /\ Len(last.arg.args) = 4
  /\ last.arg.extra = [name |-> <<7>>, salt |-> Absent, passphrase |-> Absent]
  /\ last.arg.newPassphrase = <<1>>
  /\ \E r \in db :
       /\ r.id = last.user.id
       /\ r.f["name"] = <<7>>
       /\ r.f["passphrase"] = pbkdf2(<<1>>, r.f["salt"])
       /\ r.f["passphrase"] # pbkdf2(last.arg.passphrase, r.f["salt"])

\* The errors user.authenticate reports.
MethodErrors == {"Passphrase was not specified", "Incorrect passphrase", "CryptoError"}

\* C18: a static authenticate whose username cannot be cast to the type of the
\* username path fails with 'Unknown username' and yields no user; an error
\* that is no CastError on the username path is delivered as it was raised:
\* for a username that matches a user, the error of user.authenticate (missing
\* passphrase, incorrect passphrase, or the error of the key derivation).
C18_CastError ==
  Delivered({"authenticate"})
  => LET u == last.arg.username
         p == last.arg.passphrase
     IN  /\ (~IsMissing(u) /\ CastFails(u))
            => (last.err = "Unknown username" /\ last.user = NoUser)
         /\ last.err \notin {CastError("_id"), CastError("username")}
         /\ (~IsMissing(u) /\ ~CastFails(u) /\ Found(u) # {} /\ last.err # "none")
            => /\ last.err \in MethodErrors
               /\ IsMissing(p) <=> last.err = "Passphrase was not specified"
               /\ last.err = "Incorrect passphrase"
                  => \E r \in Found(u) : pbkdf2(p, r.f["salt"]) # r.f["passphrase"]

C18_Witness ==
  /\ Delivered({"authenticate"})
  /\ usernamePath = "_id"
  /\ last.arg.username = <<1>>
  /\ ~last.arg.cb
  /\ last.err = "Unknown username"
  /\ db # {}

\* C19: the write of a register whose username a persisted user has already
\* ends the call with the error 'Username already exists' and no user.
C19_UsernameExists ==
  [][\A d \in Slots :
       (/\ docs[d].pc = "write"
        /\ docs[d].op = "register"
        /\ docs[d].arg.username # Undefined
        /\ \E r \in db : Key(r) = Key(docs[d].user))
       => (last'.err = "Username already exists" /\ last'.user = NoUser)]_vars

\* The paths the plugin is configured with.
Configured == {usernamePath, "salt", "passphrase"}

\* C20: the schema after the plugin has exactly the statics authenticate,
\* register and setPassphrase, the methods authenticate and setPassphrase, and
\* its former paths with the username, salt and passphrase paths; the paths
\* the plugin added are required, the paths the schema had are as they were;
\* and a register reports as invalid exactly the added paths it left unset.
C20_PluginSchema ==
  /\ Schema.statics = userSchema.statics \cup {"authenticate", "register", "setPassphrase"}
  /\ Schema.methods = userSchema.methods \cup {"authenticate", "setPassphrase"}
  /\ DOMAIN Schema.paths = DOMAIN userSchema.paths \cup Configured
  /\ \A p \in Configured \ DOMAIN userSchema.paths : Schema.paths[p].required
  /\ \A p \in DOMAIN userSchema.paths : Schema.paths[p] = userSchema.paths[p]
  /\ (Delivered({"register"}) /\ last.arg.passphrase = Undefined)
     => /\ last.err = "ValidationError"
        /\ last.errors =
             {p \in Configured \ DOMAIN userSchema.paths :
                /\ p = usernamePath => IsMissing(last.arg.username)
                /\ p = "salt" => last.arg.extra.salt = Absent}
  /\ (Delivered({"register"}) /\ last.err = "none")
     => \A r \in db : \A p \in Paths \ DOMAIN Schema.paths : r.f[p] = Undefined

C20_Witness ==
  /\ Delivered({"register"})
  /\ usernamePath = "_id"
  /\ last.arg.passphrase = Undefined
  /\ last.arg.username = Undefined
  /\ last.errors = {"salt", "passphrase"}
  /\ "username" \notin DOMAIN Schema.paths

\* The passphrase argument of the latest register or user.setPassphrase.
Argument == IF last.op = "register" THEN last.arg.passphrase ELSE last.arg.newPassphrase

\* C26: after a successful register or user.setPassphrase whose `extra` has
\* the passphrase path or the salt path, the persisted hash is the derivation
\* of the passphrase argument with the persisted salt, a generated one.
C26_ArgumentDecides ==
  (/\ Delivered({"register", "user.setPassphrase"})
   /\ last.err = "none"
   /\ Argument # Undefined
   /\ (last.arg.extra.passphrase # Absent \/ last.arg.extra.salt # Absent))
  => \A r \in db :
       r.id = last.user.id
       => /\ r.f["passphrase"] = pbkdf2(Argument, r.f["salt"])
          /\ r.f["salt"] \in {randomBytes(n) : n \in 1..entropy}

\* The hash is a derivation whose passphrase was itself a derived hash.
Rehashed(hash) == IsHash(hash) /\ hash[2] > 0 /\ hash[3] = -5

\* C23: the hook derives a hash from a derived hash only when the call itself
\* set that value as the passphrase; and the credentials a successful save
\* stores, when the save set no passphrase itself, are not the derivation of
\* a derived hash.
C23_HashedOnce ==
  /\ [][\A d \in Slots :
          (/\ docs[d].pc # "createSalt"
           /\ docs'[d].pc = "createSalt"
           /\ IsHash(docs'[d].passphrase))
          => docs'[d].passphrase \in
               {docs'[d].arg.newPassphrase, docs'[d].arg.passphrase,
                docs'[d].arg.extra.passphrase}]_vars
  /\ []((Delivered({"save"}) /\ last.err = "none" /\ last.arg.newPassphrase = Absent)
        => \A r \in db : r.id = last.user.id => ~Rehashed(r.f["passphrase"]))

\* What the static authenticate(u, p) reports for the persisted users as they
\* are ("none": it succeeds).
Reports(u, p) ==
  IF IsMissing(u) THEN "Username was not specified"
  ELSE IF Matching(u) = {} THEN "Unknown username"
  ELSE IF IsMissing(p) THEN "Passphrase was not specified"
  ELSE IF \A r \in Matching(u) : pbkdf2(p, r.f["salt"]) # r.f["passphrase"]
  THEN "Incorrect passphrase"
  ELSE "none"

\* The steps of a save: the hook at work, or the write issued.
Saving == {"createSalt", "createHash", "write"}

\* C25: a static setPassphrase(u, P_old, ...) for which authenticate(u, P_old)
\* reports an error delivers that error and no user; it never starts a save;
\* the step that delivers the error changes no persisted user and draws no
\* random bytes.
C25_FailedAuthentication ==
  /\ [](\A d \in Slots :
          (docs[d].op = "setPassphrase" /\ docs[d].pc \in Saving)
          => Reports(docs[d].arg.username, docs[d].arg.passphrase) = "none")
  /\ [][(/\ last' # last
         /\ last'.op = "setPassphrase"
         /\ Reports(last'.arg.username, last'.arg.passphrase) # "none"
         /\ last'.err # "CryptoError")
        => /\ last'.err = Reports(last'.arg.username, last'.arg.passphrase)
           /\ last'.user = NoUser
           /\ db' = db
           /\ entropy' = entropy]_vars

C25_Witness ==
  /\ Delivered({"setPassphrase"})
  /\ last.err = "Incorrect passphrase"
  /\ last.arg.extra # NoExtra
  /\ \E r \in db : r.f["name"] = Undefined /\ r.id \in {m.id : m \in Matching(last.arg.username)}

\* C28: in callback mode a call of authenticate (static or method) calls the
\* callback exactly once.
C28_CalledOnce ==
  (Delivered(AuthOps) /\ last.arg.cb) => last.times = 1

\* C29: in callback mode a call of the static setPassphrase calls the
\* callback exactly once, also when the save fails.
C29_CalledOnce ==
  (Delivered({"setPassphrase"}) /\ last.arg.cb) => last.times = 1

\* The hook is waiting for crypto.randomBytes or crypto.pbkdf2.
Hooking == {"createSalt", "createHash"}

\* C30: while the hook waits for the random bytes or the derivation it has
\* called next once and done not yet; when the hook starts to wait no random
\* bytes have been drawn since next was called; a save whose write is issued,
\* and every save that has delivered its outcome, has called next once and
\* done once, with an error exactly when the random bytes or the derivation
\* failed; and a hook that waits calls done in the end.
C30_NextAndDone ==
  /\ [](\A d \in Slots :
          /\ docs[d].pc \in Hooking
             => docs[d].hook = [next |-> 1, done |-> 0, err |-> FALSE]
          /\ docs[d].pc = "write"
             => docs[d].hook = [next |-> 1, done |-> 1, err |-> FALSE])
  /\ [](Delivered({"save"})
        => last.hook = [next |-> 1, done |-> 1, err |-> (last.err = "CryptoError")])
  /\ [][\A d \in Slots :
          (docs[d].pc \notin Hooking /\ docs'[d].pc \in Hooking)
          => (entropy' = entropy /\ docs'[d].hook.next = 1)]_vars
  /\ \A d \in Slots :
       (docs[d].pc \in Hooking) ~> (docs[d].pc \notin Hooking /\ (docs[d].hook.done = 1 \/ last.hook.done = 1))

C30_Witness ==
  /\ Delivered({"save"})
  /\ last.err = "CryptoError"
  /\ last.at = "createHash"
  /\ last.hook = [next |-> 1, done |-> 1, err |-> TRUE]
\* The defaults as the documentation of the plugin gives them.
DocumentedDefaults ==
  [username |-> [path |-> "username", missingError |-> "Username was not specified",
                 incorrectError |-> "Unknown username"],
   passphrase |-> [path |-> "passphrase", missingError |-> "Passphrase was not specified",
                   incorrectError |-> "Incorrect passphrase"],
   salt |-> [path |-> "salt", len |-> 32],
   hash |-> [iterations |-> 25000, keylen |-> 512, encoding |-> "hex"]]

\* The plugin was given option f of group k.
Sets(k, f) == k \in DOMAIN given /\ f \in DOMAIN given[k]

\* C21: every option is the one the plugin was given or, when it was not
\* given, the documented default (whatever other options were given); every
\* persisted hash is the derivation with the merged iteration count, key
\* length and encoding, and so is the one authenticate compares it with: the
\* registered passphrase authenticates and another one is answered with the
\* merged incorrectError.
C21_MergedOptions ==
  /\ \A k \in DOMAIN DocumentedDefaults : \A f \in DOMAIN DocumentedDefaults[k] :
        options[k][f] = IF Sets(k, f) THEN given[k][f] ELSE DocumentedDefaults[k][f]
  /\ \A r \in db :
        r.f["passphrase"] =
          <<-4, 1, 1>> \o r.f["salt"]
            \o (IF Sets("hash", "iterations") \/ Sets("hash", "keylen")
                    \/ Sets("hash", "encoding")
                THEN <<-8, IF Sets("hash", "iterations") THEN 1000 ELSE 25000,
                       IF Sets("hash", "keylen") THEN 64 ELSE 512,
                       IF Sets("hash", "encoding") THEN 1 ELSE 0>>
                ELSE <<>>)
  /\ (Delivered({"authenticate"}) /\ Matching(last.arg.username) # {})
     => /\ last.arg.passphrase = <<1>> => last.err = "none"
        /\ last.arg.passphrase = <<2>>
           => last.err = IF Sets("passphrase", "incorrectError") THEN "Wrong passphrase"
                         ELSE "Incorrect passphrase"

\* Only the iteration count is given: a user registered with it authenticates,
\* and the other options have their defaults.
C21_Witness ==
  /\ DOMAIN given = {"hash"}
  /\ DOMAIN given.hash = {"iterations"}
  /\ Delivered({"authenticate"})
  /\ last.err = "none"
  /\ options.hash.keylen = 512
  /\ options.salt.len = 32
\* C24: a static setPassphrase succeeds only if the passphrase it presented
\* matches the credentials that are persisted for the user when its write is
\* made; so of two calls in flight with one old passphrase (and new ones that
\* differ from it) at most one succeeds.
C24_ComparedAtWrite ==
  [][(/\ last' # last
      /\ last'.op = "setPassphrase"
      /\ last'.err = "none")
     => \E r \in Found(last'.arg.username) :
          r.f["passphrase"] = pbkdf2(last'.arg.passphrase, r.f["salt"])]_vars
\* C27: when the passphrase of a document is set while its save is in flight
\* (after the hook has read the passphrase), every persisted passphrase is
\* still a derived hash, and createHash does not put the hash of the value the
\* hook had read in the place of the value set since.
C27_SetInFlight ==
  /\ [](\A r \in db : IsHash(r.f["passphrase"]))
  /\ [][\A d \in Slots :
          (/\ docs[d].pc = "createHash"
           /\ docs[d].user.f["passphrase"] # docs[d].passphrase
           /\ docs'[d].pc # "createHash")
          => docs'[d].user.f["passphrase"] # pbkdf2(docs[d].passphrase, docs[d].salt)]_vars
\* The passphrases that the callers of Interleaving supply.
SuppliedRaw == {<<1>>, <<2>>, <<3>>}

\* C22: under any interleaving of register, setPassphrase and save, the hash
\* of every persisted user is the derivation of one supplied passphrase with
\* the salt persisted for that user.
C22_Consistent ==
  \A r \in db : \E P \in SuppliedRaw : r.f["passphrase"] = pbkdf2(P, r.f["salt"])

====
